---- MODULE Spec2Model ----
(***************************************************************************)
(* Model of the vault service of onix (src-tauri/src/services/             *)
(* vault_service.rs, src-tauri/src/models/vault.rs).                       *)
(*                                                                         *)
(* The service holds two cells, each behind its own std::sync::Mutex:      *)
(* current_vault : Option<Vault> and recent_vaults : Vec<RecentVault>.     *)
(* Commands run as independent tasks; a task advances one lock operation   *)
(* or one filesystem call at a time.  The filesystem holds, per vault      *)
(* directory, the .onix directory and the file .onix/vault.json, plus the  *)
(* application's recent_vaults.json.                                       *)
(***************************************************************************)
EXTENDS Integers, Sequences, FiniteSets, TLC

(***************************************************************************)
(* Bounds of the model.                                                    *)
(***************************************************************************)
\* the number of commands started in a run
MaxOps == 2
\* largest value of the wall clock (epoch seconds, chrono::Utc::now())
MaxClock == 2

\* the tasks that run commands (Tauri runs each invoke on a runtime thread)
Tasks == {"t1", "t2"}

(***************************************************************************)
(* Option<T>: None is the empty tuple, Some(x) the one-element tuple.      *)
(***************************************************************************)
None == <<>>
Some(x) == <<x>>

(***************************************************************************)
(* Strings the code inspects character by character are tuples of          *)
(* one-character strings.                                                  *)
(***************************************************************************)
\* s has pat as a substring starting at index i (1-based)
starts_with_at(s, pat, i) ==
    /\ i + Len(pat) - 1 <= Len(s)
    /\ \A k \in 1..Len(pat) : s[i + k - 1] = pat[k]

\* str::contains(pattern)
contains(s, pat) == \E i \in 1..(Len(s) + 1) : starts_with_at(s, pat, i)


RECURSIVE last_index_of(_, _, _)
\* the largest index i <= from with s[i] = c, or 0 when there is none
last_index_of(s, c, from) ==
    IF from = 0 THEN 0
    ELSE IF s[from] = c THEN from
    ELSE last_index_of(s, c, from - 1)

\* s[from..Len(s)]
suffix_from(s, from) == SubSeq(s, from, Len(s))

\* char::to_lowercase on the letters the model's file names use
lower_char(c) ==
    CASE c = "M" -> "m"
      [] c = "D" -> "d"
      [] c = "E" -> "e"
      [] OTHER -> c

\* str::to_lowercase
to_lowercase(s) == [i \in 1..Len(s) |-> lower_char(s[i])]

\* Path::join for the paths of the model (none ends in a separator)
join(p, name) == p \o <<"/">> \o name

(***************************************************************************)
(* Path::file_name: the last component when it is a normal one; None for   *)
(* the root, "." and a path that ends in "..".                             *)
(***************************************************************************)
file_name(p) ==
    LET seg == suffix_from(p, last_index_of(p, "/", Len(p)) + 1)
    IN  IF seg = <<>> \/ seg = <<".">> \/ seg = <<".", ".">> THEN None
        ELSE Some(seg)

(***************************************************************************)
(* Path::extension: the part of file_name after its last '.', None when    *)
(* there is no file name, no '.', or the only '.' is the first character.  *)
(***************************************************************************)
extension(p) ==
    IF file_name(p) = None THEN None
    ELSE LET f == file_name(p)[1]
             d == last_index_of(f, ".", Len(f))
         IN  IF d <= 1 THEN None ELSE Some(suffix_from(f, d + 1))

(***************************************************************************)
(* The strings of the model.                                               *)
(***************************************************************************)
\* ".onix" and "vault.json", Vault::onix_dir / Vault::config_path
OnixName == <<".", "o", "n", "i", "x">>
VaultJsonName == <<"v", "a", "u", "l", "t", ".", "j", "s", "o", "n">>
\* the fallback name of open_vault
UnnamedVault ==
    <<"U", "n", "n", "a", "m", "e", "d", " ", "V", "a", "u", "l", "t">>

\* impl Default for VaultSettings
DefaultSettings ==
    [ auto_save |-> TRUE,
      default_note_location |-> <<>>,
      file_extensions |-> << <<"m", "d">>,
                             <<"m", "a", "r", "k", "d", "o", "w", "n">> >>,
      exclude_patterns |-> << <<".", "g", "i", "t">>,
                              OnixName,
                              <<"n", "o", "d", "e", "_", "m", "o", "d", "u", "l", "e", "s">>,
                              <<".", "D", "S", "_", "S", "t", "o", "r", "e">> >> ]

(***************************************************************************)
(* The directories and files the commands are called on.                   *)
(***************************************************************************)
\* an ordinary directory, the spec's example tree
DirA == <<"/", "n", "/", "a">>
\* the working directory given as ".": a directory without a file name
DirDot == <<".">>
\* a regular file
FileF == <<"/", "n", "/", "f", ".", "m", "d">>
\* a path at which nothing exists
Gone == <<"/", "n", "/", "g", "o", "n", "e">>

Dirs == {DirA, DirDot}
Files == {FileF}
ReqPaths == Dirs \cup Files \cup {Gone}

(***************************************************************************)
(* Other places at which the tree of /n/a can lie: the roots the scan is   *)
(* compared on.  No command is called on them.                             *)
(***************************************************************************)
\* below a hidden directory
DirHidden == <<"/", ".", "h", "/", "a">>
\* a hidden directory itself
DirHiddenLeaf == <<"/", "n", "/", ".", "h">>
\* below directories whose names contain an exclusion pattern
DirGithub == <<"/", ".", "g", "i", "t", "h", "u", "b", "/", "a">>
DirModules ==
    <<"/", "m", "y", "_", "n", "o", "d", "e", "_", "m", "o", "d", "u", "l", "e", "s",
      "/", "a">>

ScanRoots == {DirA, DirHidden, DirHiddenLeaf, DirGithub, DirModules}

\* the CreateVaultRequests: [path, name, description]
CreateRequests ==
    { [path |-> DirA, name |-> <<"N", "1">>, description |-> None],
      [path |-> DirA, name |-> <<"N", "2">>, description |-> Some(<<"d">>)],
      [path |-> FileF, name |-> <<"N", "1">>, description |-> None],
      [path |-> Gone, name |-> <<"N", "1">>, description |-> None] }

(***************************************************************************)
(* The note files below each directory (they do not change in a run):      *)
(* [path, is_file, len].  The root itself and the .onix entries are added  *)
(* by WalkDir below.                                                       *)
(***************************************************************************)
Entry(p, f, n) == [path |-> p, is_file |-> f, len |-> n, meta_ok |-> TRUE]

NotesBelow(root) ==
    IF root \in ScanRoots THEN
      { Entry(join(root, <<"a", ".", "m", "d">>), TRUE, 10),
        Entry(join(root, <<"b", ".", "t", "x", "t">>), TRUE, 5),
        Entry(join(root, <<".", "g", "i", "t">>), FALSE, 0),
        Entry(join(join(root, <<".", "g", "i", "t">>), <<"c", ".", "m", "d">>), TRUE, 3) }
    ELSE IF root = DirDot THEN
      { Entry(join(root, <<"E", ".", "M", "D">>), TRUE, 2),
        Entry(join(root, <<".", "h">>), FALSE, 0),
        Entry(join(join(root, <<".", "h">>), <<"d", ".", "m", "d">>), TRUE, 7),
        \* a note whose metadata cannot be read, and a file without extension
        [Entry(join(root, <<"g", ".", "m", "d">>), TRUE, 4) EXCEPT !.meta_ok = FALSE],
        Entry(join(root, <<"R">>), TRUE, 6) }
    ELSE {}

(***************************************************************************)
(* models/vault.rs                                                         *)
(***************************************************************************)
\* Vault::new(id, name, path) at time now
VaultNew(id, name, path, now) ==
    [ id |-> id,
      name |-> name,
      path |-> path,
      created_at |-> now,
      last_opened |-> now,
      note_count |-> 0,
      total_size |-> 0,
      config |-> [ name |-> name,
                   description |-> None,
                   settings |-> DefaultSettings,
                   metadata |-> <<>> ] ]

\* Vault::onix_dir
onix_dir(v) == join(v.path, OnixName)

\* Vault::config_path
config_path(v) == join(join(v.path, OnixName), VaultJsonName)

\* impl From<Vault> for VaultInfo
VaultInfoFrom(v) ==
    [ id |-> v.id,
      name |-> v.name,
      path |-> v.path,
      note_count |-> v.note_count,
      total_size |-> v.total_size,
      last_opened |-> v.last_opened,
      is_current |-> FALSE ]

\* impl From<Vault> for RecentVault
RecentVaultFrom(v) ==
    [ id |-> v.id, name |-> v.name, path |-> v.path, last_opened |-> v.last_opened ]

(***************************************************************************)
(* File contents.  A file is absent, holds text that serde_json rejects,   *)
(* cannot be read as text at all (read_to_string fails), or holds the      *)
(* JSON of a value.                                                        *)
(***************************************************************************)
Absent == <<"absent">>
Corrupt == <<"corrupt">>
Unreadable == <<"unreadable">>
\* serde_json::to_string_pretty(value)
to_string_pretty(value) == <<"json", value>>
\* the file exists (Path::exists on it)
file_exists(content) == content # Absent
\* tokio::fs::read_to_string / std::fs::read_to_string: Ok(text) or Err
read_to_string(content) ==
    IF content = Absent \/ content = Unreadable THEN [ok |-> FALSE, text |-> <<>>]
    ELSE [ok |-> TRUE, text |-> content]
\* serde_json::from_str(text): Ok(value) or Err
from_str(text) ==
    IF text[1] = "json" THEN [ok |-> TRUE, value |-> Some(text[2])]
    ELSE [ok |-> FALSE, value |-> None]

(***************************************************************************)
(* The outcomes of a write (fs::write, create_dir_all): done; failed with  *)
(* the target untouched; failed after the file was truncated or partly     *)
(* written (fs::write is a direct overwrite).                              *)
(***************************************************************************)
WriteOutcomes == {"ok", "failed", "torn"}
MkdirOutcomes == {"ok", "failed"}
\* the file after fs::write(content) with the given outcome
written(before, content, outcome) ==
    CASE outcome = "ok" -> content
      [] outcome = "torn" -> Corrupt
      [] OTHER -> before

(***************************************************************************)
(* services/vault_service.rs: the pure parts                               *)
(***************************************************************************)
\* the capacity of the recent list (recent.truncate(10))
MaxRecent == 10

\* VaultService::should_exclude_path
should_exclude_path(path, exclude_patterns) ==
    \/ \E i \in 1..Len(exclude_patterns) : contains(path, exclude_patterns[i])
    \/ /\ file_name(path) # None
       /\ file_name(path)[1][1] = "."

(***************************************************************************)
(* WalkDir::new(root).follow_links(false): the root, every entry below it, *)
(* and the .onix directory and its vault.json when they exist.             *)
(***************************************************************************)
WalkDir(root, has_onix, has_config) ==
    {Entry(root, FALSE, 0)}
    \cup NotesBelow(root)
    \cup (IF has_onix THEN {Entry(join(root, OnixName), FALSE, 0)} ELSE {})
    \cup (IF has_config
          THEN {Entry(join(join(root, OnixName), VaultJsonName), TRUE, 1)}
          ELSE {})

\* a variant of counted_entries: the extension is compared as it is written
counted_entries_case_sensitive(entries, settings) ==
    { e \in entries :
        /\ ~should_exclude_path(e.path, settings.exclude_patterns)
        /\ e.is_file
        /\ extension(e.path) # None
        /\ \E i \in 1..Len(settings.file_extensions) :
              settings.file_extensions[i] = extension(e.path)[1] }

\* the entries the loop of calculate_vault_stats counts as notes
counted_entries(entries, settings) ==
    { e \in entries :
        /\ ~should_exclude_path(e.path, settings.exclude_patterns)
        /\ e.is_file
        /\ extension(e.path) # None
        /\ \E i \in 1..Len(settings.file_extensions) :
              settings.file_extensions[i] = to_lowercase(extension(e.path)[1]) }

RECURSIVE sum_len(_)
\* total_size += metadata.len() for the entries whose metadata can be read
sum_len(es) ==
    IF es = {} THEN 0
    ELSE LET e == CHOOSE x \in es : TRUE
         IN  (IF e.meta_ok THEN e.len ELSE 0) + sum_len(es \ {e})

\* VaultService::calculate_vault_stats
calculate_vault_stats(v, entries) ==
    LET notes == counted_entries(entries, v.config.settings)
    IN  [v EXCEPT !.note_count = Cardinality(notes),
                  !.total_size = sum_len(notes)]

\* Vec::retain(|v| v.id != id)
retain_other(list, id) == SelectSeq(list, LAMBDA rv : rv.id # id)

\* Vec::truncate(n)
truncate(list, n) == IF Len(list) > n THEN SubSeq(list, 1, n) ELSE list

\* a variant of add_to_recent: the older entry of the same vault is kept
add_to_recent_keep_old(list, rv) == truncate(<<rv>> \o list, MaxRecent)

\* the list after add_to_recent_vaults: retain, insert(0, ..), truncate(10)
add_to_recent(list, rv) ==
    truncate(<<rv>> \o retain_other(list, rv.id), MaxRecent)

(***************************************************************************)
(* The state.                                                              *)
(***************************************************************************)
VARIABLES
    current_vault,       \* Option<Vault>, the cell behind current_lock
    recent_vaults,       \* Vec<RecentVault>, the cell behind recent_lock
    current_lock,        \* Option<task>: the holder of current_vault's mutex
    recent_lock,         \* Option<task>: the holder of recent_vaults' mutex
    onix_dirs,           \* the directories that have a .onix directory
    vault_json,          \* per directory, the content of .onix/vault.json
    recent_vaults_json,  \* the content of <app_data_dir>/recent_vaults.json
    clock,               \* chrono::Utc::now().timestamp()
    next_uuid,           \* the next value of Uuid::new_v4()
    ops_started,         \* the number of commands started
    pc,                  \* per task, where it is in its command
    op,                  \* per task, the command and its arguments
    local,               \* per task, the local variables of the command
    ret,                 \* per task, what its last command returned
    hist,                \* history, per task: what its command did so far
    stable_id,           \* history, per directory: the id a returned
                         \* create_vault left in a config nobody else rewrote
    last_outcome         \* history: the result of the last successful
                         \* create_vault/open_vault (Some) or close_vault (None)

mem == << current_vault, recent_vaults >>
locks == << current_lock, recent_lock >>
disk == << onix_dirs, vault_json, recent_vaults_json >>
history == << hist, stable_id, last_outcome >>
vars == << current_vault, recent_vaults, current_lock, recent_lock, onix_dirs,
           vault_json, recent_vaults_json, clock, next_uuid, ops_started,
           pc, op, local, ret, hist, stable_id, last_outcome >>

(***************************************************************************)
(* What the disk holds when the service starts: configs and a recent list  *)
(* written in earlier sessions, or edited since.                           *)
(***************************************************************************)
\* a vault that an earlier session created at path, with stale statistics
OldVault(id, path) ==
    [VaultNew(id, <<"o", "l", "d">>, path, 0) EXCEPT !.note_count = 5,
                                                      !.total_size = 50]

OldRecent(id, path) == [id |-> id, name |-> <<"o", "l", "d">>, path |-> path,
                        last_opened |-> 0]

\* the ids found on disk at start are 1 .. MaxRecent + 1
OldIds == 1..(MaxRecent + 1)

\* the first value Uuid::new_v4() returns in the run (ids never collide)
FirstUuid == MaxRecent + 2

\* the path of the old recent entry with the given id
OldPathOf(i) == IF i = 1 THEN DirA ELSE IF i = 2 THEN Gone
                ELSE IF i = 3 THEN FileF ELSE DirDot

\* recent_vaults.json holding the entries with ids 1 .. n, newest first
OldRecentList(n) == [i \in 1..n |-> OldRecent(i, OldPathOf(i))]

\* no config anywhere; DirA is an old vault; both configs are damaged
NoConfigs == [p \in Dirs |-> Absent]
OldConfigs == [p \in Dirs |-> IF p = DirA THEN to_string_pretty(OldVault(1, DirA))
                                ELSE Absent]
BadConfigs == [p \in Dirs |-> IF p = DirA THEN Corrupt ELSE Unreadable]

\* the disks the service may start on: [recent, configs]
InitialDisks ==
    { [recent |-> Absent, configs |-> NoConfigs],
      [recent |-> to_string_pretty(OldRecentList(3)), configs |-> OldConfigs],
      [recent |-> to_string_pretty(OldRecentList(MaxRecent)), configs |-> BadConfigs],
      [recent |-> to_string_pretty(OldRecentList(MaxRecent + 1)), configs |-> NoConfigs],
      [recent |-> to_string_pretty(<< OldRecent(1, DirA), OldRecent(2, Gone),
                                       OldRecent(1, DirA) >>),
       configs |-> OldConfigs] }

\* VaultService::load_recent_vaults, for a file new() accepts
load_recent_vaults(content) ==
    IF ~file_exists(content) THEN <<>>
    ELSE from_str(read_to_string(content).text).value[1]

NoOp == [name |-> "none", path |-> <<>>, req_name |-> <<>>, description |-> None]
NoLocal == [vault |-> None, recent |-> <<>>, current_id |-> None, i |-> 0, infos |-> <<>>]
NoRet == [status |-> "none", err |-> "", value |-> None]
NoHist == [effects |-> {}, generated |-> None, covered |-> None, saw |-> "nothing",
           wrote_last |-> FALSE]

\* VaultService::new
Init ==
    /\ current_vault = None
    /\ \E d \in InitialDisks : /\ recent_vaults_json = d.recent
                                /\ vault_json = d.configs
    /\ recent_vaults = load_recent_vaults(recent_vaults_json)
    /\ current_lock = None
    /\ recent_lock = None
    /\ onix_dirs = {p \in Dirs : file_exists(vault_json[p])}
    /\ clock = 1
    /\ next_uuid = FirstUuid
    /\ ops_started = 0
    /\ pc = [t \in Tasks |-> "idle"]
    /\ op = [t \in Tasks |-> NoOp]
    /\ local = [t \in Tasks |-> NoLocal]
    /\ ret = [t \in Tasks |-> NoRet]
    /\ hist = [t \in Tasks |-> NoHist]
    /\ stable_id = [p \in Dirs |-> None]
    /\ last_outcome = None

(***************************************************************************)
(* Helpers of the actions.                                                 *)
(***************************************************************************)
Ok(v) == [status |-> "Ok", err |-> "", value |-> Some(v)]
Err(kind) == [status |-> "Err", err |-> kind, value |-> None]

\* Path::exists and Path::is_dir on the paths commands are called with
exists(p) == p \in Dirs \cup Files
is_dir(p) == p \in Dirs

\* a variant of path_error: is_dir is checked first
path_error_dir_first(path) ==
    IF ~is_dir(path) THEN "InvalidPath"
    ELSE IF ~exists(path) THEN "FileNotFound"
    ELSE ""

\* lines 39-48 and 85-94: the error of the path checks, "" when they pass
path_error(path) ==
    IF ~exists(path) THEN "FileNotFound"
    ELSE IF ~is_dir(path) THEN "InvalidPath"
    ELSE ""

Goto(t, label) == pc' = [pc EXCEPT ![t] = label]
Return(t, r) == /\ pc' = [pc EXCEPT ![t] = "done"]
                /\ ret' = [ret EXCEPT ![t] = r]
Did(t, effect) == hist' = [hist EXCEPT ![t].effects = @ \cup {effect}]
\* history: the command of task t is the last that wrote the current slot
WroteCurrent(t) ==
    hist' = [u \in Tasks |->
               [hist[u] EXCEPT !.effects = IF u = t THEN @ \cup {"current"} ELSE @,
                               !.wrote_last = (u = t)]]

Idle(t) == pc[t] \in {"idle", "done"}

\* the task is an open_vault that began while stable_id held for its
\* directory, and nobody disturbed the config since
Covered(t) ==
    /\ op[t].name = "open_vault"
    /\ hist[t].covered # None
    /\ hist[t].covered = stable_id[op[t].path]

\* stable_id after task t wrote vault v to the config of directory p
StableAfterWrite(t, p, v, outcome) ==
    CASE outcome = "failed" -> stable_id
      [] outcome = "torn" -> [stable_id EXCEPT ![p] = None]
      [] OTHER ->
           IF stable_id[p] # None /\ stable_id[p][1] # v.id /\ ~Covered(t)
           THEN [stable_id EXCEPT ![p] = None]
           ELSE stable_id

\* async_fs::write(vault.config_path(), serde_json::to_string_pretty(&vault))
WriteVaultJson(t, v, outcome) ==
    /\ vault_json' = [vault_json EXCEPT
                        ![v.path] = written(@, to_string_pretty(v), outcome)]
    /\ stable_id' = StableAfterWrite(t, v.path, v, outcome)
    /\ IF outcome = "failed" THEN UNCHANGED hist ELSE Did(t, "vault_json")

(***************************************************************************)
(* A command is invoked (commands/vault.rs).                               *)
(***************************************************************************)
Requests ==
    { [name |-> "create_vault", path |-> r.path, req_name |-> r.name,
       description |-> r.description] : r \in CreateRequests }
    \cup { [name |-> c, path |-> p, req_name |-> <<>>, description |-> None] :
        c \in {"open_vault", "is_vault"}, p \in ReqPaths }
    \cup { [name |-> c, path |-> <<>>, req_name |-> <<>>, description |-> None] :
        c \in {"get_current_vault", "get_recent_vaults", "get_vaults_info",
               "close_vault"} }

FirstLabel(name) ==
    CASE name = "create_vault" -> "cv_validate"
      [] name = "open_vault" -> "ov_validate"
      [] name = "is_vault" -> "iv_check"
      [] name = "get_current_vault" -> "gc_lock"
      [] name = "get_recent_vaults" -> "gr_lock"
      [] name = "get_vaults_info" -> "gi_recent_lock"
      [] name = "close_vault" -> "cl_lock"

Call(t) ==
    /\ Idle(t)
    /\ ops_started < MaxOps
    /\ \E r \in Requests :
         /\ op' = [op EXCEPT ![t] = r]
         /\ pc' = [pc EXCEPT ![t] = FirstLabel(r.name)]
         /\ hist' = [hist EXCEPT ![t] =
                       [NoHist EXCEPT !.covered =
                          IF r.name = "open_vault" /\ r.path \in Dirs
                          THEN stable_id[r.path] ELSE None]]
    /\ ops_started' = ops_started + 1
    /\ local' = [local EXCEPT ![t] = NoLocal]
    /\ ret' = [ret EXCEPT ![t] = NoRet]
    /\ UNCHANGED << mem, locks, disk, clock, next_uuid, stable_id, last_outcome >>

\* time passes
Tick ==
    /\ clock < MaxClock
    /\ clock' = clock + 1
    /\ UNCHANGED << mem, locks, disk, next_uuid, ops_started, pc, op, local, ret,
                    history >>

(***************************************************************************)
(* create_vault                                                            *)
(***************************************************************************)
\* lines 37-58: the path checks, Uuid::new_v4, Vault::new, the description
create_vault_validate(t) ==
    /\ pc[t] = "cv_validate"
    /\ IF path_error(op[t].path) # "" THEN
         /\ Return(t, Err(path_error(op[t].path)))
         /\ UNCHANGED << next_uuid, local, hist >>
       ELSE
         /\ next_uuid' = next_uuid + 1
         /\ local' = [local EXCEPT ![t].vault =
              Some([VaultNew(next_uuid, op[t].req_name, op[t].path, clock)
                      EXCEPT !.config.description =
                        IF op[t].description # None THEN op[t].description ELSE @])]
         /\ hist' = [hist EXCEPT ![t].generated = Some(next_uuid)]
         /\ Goto(t, "cv_mkdir")
         /\ UNCHANGED ret
    /\ UNCHANGED << mem, locks, disk, clock, ops_started, op, stable_id, last_outcome >>

\* async_fs::create_dir_all(&vault.onix_dir()) of create_vault and open_vault
CreateOnixDir(t, next) ==
    \E outcome \in MkdirOutcomes :
      IF outcome = "ok" THEN
        /\ onix_dirs' = onix_dirs \cup {local[t].vault[1].path}
        /\ Did(t, "mkdir")
        /\ Goto(t, next)
        /\ UNCHANGED ret
      ELSE
        /\ Return(t, Err("Io"))
        /\ UNCHANGED << onix_dirs, hist >>

\* lines 60-62
create_vault_mkdir(t) ==
    /\ pc[t] = "cv_mkdir"
    /\ CreateOnixDir(t, "cv_write")
    /\ UNCHANGED << mem, locks, vault_json, recent_vaults_json, clock, next_uuid,
                    ops_started, op, local, stable_id, last_outcome >>

\* the write of the config by create_vault, open_vault and save_vault_config
WriteConfig(t, next) ==
    \E outcome \in WriteOutcomes :
      /\ WriteVaultJson(t, local[t].vault[1], outcome)
      /\ IF outcome = "ok" THEN Goto(t, next) /\ UNCHANGED ret
         ELSE Return(t, Err("Io"))

\* lines 64-67
create_vault_write(t) ==
    /\ pc[t] = "cv_write"
    /\ WriteConfig(t, "cv_stats")
    /\ UNCHANGED << mem, locks, onix_dirs, recent_vaults_json, clock, next_uuid,
                    ops_started, op, local, last_outcome >>

\* self.calculate_vault_stats(vault) of create_vault and open_vault
ScanVault(t, next) ==
    LET v == local[t].vault[1]
    IN  /\ local' = [local EXCEPT ![t].vault =
              Some(calculate_vault_stats(v,
                     WalkDir(v.path, v.path \in onix_dirs,
                             file_exists(vault_json[v.path]))))]
        /\ Goto(t, next)

\* lines 69-70
create_vault_stats(t) ==
    /\ pc[t] = "cv_stats"
    /\ ScanVault(t, "sc_lock")
    /\ UNCHANGED << mem, locks, disk, clock, next_uuid, ops_started, op, ret,
                    history >>

(***************************************************************************)
(* open_vault                                                              *)
(***************************************************************************)
\* lines 83-94: the path checks
open_vault_validate(t) ==
    /\ pc[t] = "ov_validate"
    /\ IF path_error(op[t].path) # "" THEN Return(t, Err(path_error(op[t].path)))
       ELSE Goto(t, "ov_load") /\ UNCHANGED ret
    /\ UNCHANGED << mem, locks, disk, clock, next_uuid, ops_started, op, local,
                    history >>

\* the content of <p>/.onix/vault.json (nothing lies below a file or a
\* missing path)
config_content(p) == IF p \in Dirs THEN vault_json[p] ELSE Absent

\* lines 109-113: the name of a vault made by open_vault
default_vault_name(path) ==
    IF file_name(path) # None THEN file_name(path)[1] ELSE UnnamedVault

\* a variant of new_vault_for: the directory's name is not used
new_vault_for_unnamed(path, id, now) == VaultNew(id, UnnamedVault, path, now)

\* lines 115-116: the vault open_vault makes for a directory without config
new_vault_for(path, id, now) == VaultNew(id, default_vault_name(path), path, now)

\* a variant of loaded_vault: the vault gets a new identifier on every open
loaded_vault_new_id(v, now) == [v EXCEPT !.last_opened = now, !.id = next_uuid]

\* lines 101-106: the vault open_vault takes from a parsed config
loaded_vault(v, now) == [v EXCEPT !.last_opened = now]

\* a variant of config_found: a config that does not parse counts as none
config_found_lenient(content) ==
    IF ~file_exists(content) THEN "absent"
    ELSE IF ~read_to_string(content).ok THEN "unreadable"
    ELSE IF ~from_str(read_to_string(content).text).ok THEN "absent"
    ELSE "json"

\* lines 98-102: what open_vault finds at config_path: no file ("absent"),
\* a file read_to_string fails on ("unreadable"), text from_str rejects
\* ("corrupt"), or a config ("json")
config_found(content) ==
    IF ~file_exists(content) THEN "absent"
    ELSE IF ~read_to_string(content).ok THEN "unreadable"
    ELSE IF ~from_str(read_to_string(content).text).ok THEN "corrupt"
    ELSE "json"

\* lines 96-116: config_path.exists(), then load the config or make a vault
open_vault_load(t) ==
    /\ pc[t] = "ov_load"
    /\ LET content == config_content(op[t].path)
           read == read_to_string(content)
           found == config_found(content)
       IN IF found # "absent" THEN
            IF found = "unreadable" THEN
              /\ Return(t, Err("Io"))
              /\ hist' = [hist EXCEPT ![t].saw = "unreadable"]
              /\ UNCHANGED << local, next_uuid >>
            ELSE IF found = "corrupt" THEN
              /\ Return(t, Err("InvalidMarkdown"))
              /\ hist' = [hist EXCEPT ![t].saw = "corrupt"]
              /\ UNCHANGED << local, next_uuid >>
            ELSE
              /\ local' = [local EXCEPT ![t].vault =
                   Some(loaded_vault(from_str(read.text).value[1], clock))]
              /\ hist' = [hist EXCEPT ![t].saw = "json"]
              /\ Goto(t, "ov_stats")
              /\ UNCHANGED << ret, next_uuid >>
          ELSE
            /\ next_uuid' = next_uuid + 1
            /\ local' = [local EXCEPT ![t].vault =
                 Some(new_vault_for(op[t].path, next_uuid, clock))]
            /\ hist' = [hist EXCEPT ![t].saw = "absent",
                                    ![t].generated = Some(next_uuid)]
            /\ Goto(t, "ov_mkdir")
            /\ UNCHANGED ret
    /\ UNCHANGED << mem, locks, disk, clock, ops_started, op, stable_id,
                    last_outcome >>

\* lines 118-120
open_vault_mkdir(t) ==
    /\ pc[t] = "ov_mkdir"
    /\ CreateOnixDir(t, "ov_write")
    /\ UNCHANGED << mem, locks, vault_json, recent_vaults_json, clock, next_uuid,
                    ops_started, op, local, stable_id, last_outcome >>

\* lines 122-124
open_vault_write(t) ==
    /\ pc[t] = "ov_write"
    /\ WriteConfig(t, "ov_stats")
    /\ UNCHANGED << mem, locks, onix_dirs, recent_vaults_json, clock, next_uuid,
                    ops_started, op, local, last_outcome >>

\* lines 129-130
open_vault_stats(t) ==
    /\ pc[t] = "ov_stats"
    /\ ScanVault(t, "ov_save")
    /\ UNCHANGED << mem, locks, disk, clock, next_uuid, ops_started, op, ret,
                    history >>

\* a variant of save_vault_config: the refreshed vault is not written back
save_vault_config_skipped(t) ==
    /\ pc[t] = "ov_save"
    /\ Goto(t, "sc_lock")
    /\ UNCHANGED << mem, locks, disk, clock, next_uuid, ops_started, op, local,
                    ret, history >>

\* lines 132-133 and save_vault_config
save_vault_config(t) ==
    /\ pc[t] = "ov_save"
    /\ WriteConfig(t, "sc_lock")
    /\ UNCHANGED << mem, locks, onix_dirs, recent_vaults_json, clock, next_uuid,
                    ops_started, op, local, last_outcome >>

(***************************************************************************)
(* The end of create_vault and open_vault: set_current_vault,              *)
(* add_to_recent_vaults, Ok(vault).                                        *)
(***************************************************************************)
\* set_current_vault: self.current_vault.lock()
set_current_vault_lock(t) ==
    /\ pc[t] = "sc_lock"
    /\ current_lock = None
    /\ current_lock' = Some(t)
    /\ Goto(t, "sc_set")
    /\ UNCHANGED << mem, recent_lock, disk, clock, next_uuid, ops_started, op,
                    local, ret, history >>

\* a variant of set_current_vault: a vault that is already open is kept
set_current_vault_keep_open(t) ==
    /\ pc[t] = "sc_set"
    /\ current_vault' = IF current_vault = None THEN local[t].vault ELSE current_vault
    /\ current_lock' = None
    /\ WroteCurrent(t)
    /\ Goto(t, "ar_lock")
    /\ UNCHANGED << recent_vaults, recent_lock, disk, clock, next_uuid,
                    ops_started, op, local, ret, stable_id, last_outcome >>

\* set_current_vault: *current = Some(vault), and the guard is dropped
set_current_vault(t) ==
    /\ pc[t] = "sc_set"
    /\ current_vault' = local[t].vault
    /\ current_lock' = None
    /\ WroteCurrent(t)
    /\ Goto(t, "ar_lock")
    /\ UNCHANGED << recent_vaults, recent_lock, disk, clock, next_uuid,
                    ops_started, op, local, ret, stable_id, last_outcome >>

\* add_to_recent_vaults: lock, retain, insert(0, ..), truncate(10)
add_to_recent_vaults(t) ==
    /\ pc[t] = "ar_lock"
    /\ recent_lock = None
    /\ recent_lock' = Some(t)
    /\ recent_vaults' = add_to_recent(recent_vaults, RecentVaultFrom(local[t].vault[1]))
    /\ Did(t, "recent")
    /\ Goto(t, "ar_save")
    /\ UNCHANGED << current_vault, current_lock, disk, clock, next_uuid,
                    ops_started, op, local, ret, stable_id, last_outcome >>

\* stable_id when create_vault or open_vault of task t returns Ok(vault)
StableAfterReturn(t) ==
    LET v == local[t].vault[1]
        on_disk == from_str(vault_json[v.path])
    IN  IF op[t].name = "create_vault" /\ on_disk.ok /\ on_disk.value[1].id = v.id
        THEN [stable_id EXCEPT ![v.path] = Some(v.id)]
        ELSE stable_id

(***************************************************************************)
(* save_recent_vaults, called with the recent lock held: create_dir_all    *)
(* and fs::write of recent_vaults.json; then the guard is dropped and the  *)
(* command returns the error or Ok(vault).                                 *)
(***************************************************************************)
save_recent_vaults(t) ==
    /\ pc[t] = "ar_save"
    /\ recent_lock = Some(t)
    /\ \E outcome \in WriteOutcomes :
         /\ recent_vaults_json' =
              written(recent_vaults_json, to_string_pretty(recent_vaults), outcome)
         /\ IF outcome = "failed" THEN UNCHANGED hist ELSE Did(t, "recent_file")
         /\ IF outcome = "ok" THEN
              /\ Return(t, Ok(local[t].vault[1]))
              /\ last_outcome' = local[t].vault
              /\ stable_id' = StableAfterReturn(t)
            ELSE
              /\ Return(t, Err("Io"))
              /\ UNCHANGED << last_outcome, stable_id >>
    /\ recent_lock' = None
    /\ UNCHANGED << mem, current_lock, onix_dirs, vault_json, clock, next_uuid,
                    ops_started, op, local >>

(***************************************************************************)
(* get_current_vault, close_vault, get_recent_vaults                       *)
(***************************************************************************)
\* self.current_vault.lock() of get_current_vault
get_current_vault_lock(t) ==
    /\ pc[t] = "gc_lock"
    /\ current_lock = None
    /\ current_lock' = Some(t)
    /\ Goto(t, "gc_read")
    /\ UNCHANGED << mem, recent_lock, disk, clock, next_uuid, ops_started, op,
                    local, ret, history >>

\* Ok(current.clone())
get_current_vault(t) ==
    /\ pc[t] = "gc_read"
    /\ current_lock' = None
    /\ Return(t, Ok(current_vault))
    /\ UNCHANGED << mem, recent_lock, disk, clock, next_uuid, ops_started, op,
                    local, history >>

\* self.current_vault.lock() of close_vault
close_vault_lock(t) ==
    /\ pc[t] = "cl_lock"
    /\ current_lock = None
    /\ current_lock' = Some(t)
    /\ Goto(t, "cl_clear")
    /\ UNCHANGED << mem, recent_lock, disk, clock, next_uuid, ops_started, op,
                    local, ret, history >>

\* *current = None; Ok(())
close_vault(t) ==
    /\ pc[t] = "cl_clear"
    /\ current_vault' = None
    /\ current_lock' = None
    /\ Return(t, Ok(<<>>))
    /\ WroteCurrent(t)
    /\ last_outcome' = None
    /\ UNCHANGED << recent_vaults, recent_lock, disk, clock, next_uuid,
                    ops_started, op, local, stable_id >>

\* self.recent_vaults.lock() of get_recent_vaults
get_recent_vaults_lock(t) ==
    /\ pc[t] = "gr_lock"
    /\ recent_lock = None
    /\ recent_lock' = Some(t)
    /\ Goto(t, "gr_read")
    /\ UNCHANGED << mem, current_lock, disk, clock, next_uuid, ops_started, op,
                    local, ret, history >>

\* Ok(recent.clone())
get_recent_vaults(t) ==
    /\ pc[t] = "gr_read"
    /\ recent_lock' = None
    /\ Return(t, Ok(recent_vaults))
    /\ UNCHANGED << mem, current_lock, disk, clock, next_uuid, ops_started, op,
                    local, history >>

(***************************************************************************)
(* get_vaults_info                                                         *)
(***************************************************************************)
\* line 164: get_recent_vaults(), the lock
get_vaults_info_recent_lock(t) ==
    /\ pc[t] = "gi_recent_lock"
    /\ recent_lock = None
    /\ recent_lock' = Some(t)
    /\ Goto(t, "gi_recent_read")
    /\ UNCHANGED << mem, current_lock, disk, clock, next_uuid, ops_started, op,
                    local, ret, history >>

\* a variant of get_vaults_info_recent: the guard of the recent list is kept
\* while the command goes on
get_vaults_info_recent_guard_kept(t) ==
    /\ pc[t] = "gi_recent_read"
    /\ local' = [local EXCEPT ![t].recent = recent_vaults]
    /\ Goto(t, "gi_current_lock")
    /\ UNCHANGED << mem, locks, disk, clock, next_uuid, ops_started, op,
                    ret, history >>

\* line 164: get_recent_vaults(), the clone
get_vaults_info_recent(t) ==
    /\ pc[t] = "gi_recent_read"
    /\ recent_lock' = None
    /\ local' = [local EXCEPT ![t].recent = recent_vaults]
    /\ Goto(t, "gi_current_lock")
    /\ UNCHANGED << mem, current_lock, disk, clock, next_uuid, ops_started, op,
                    ret, history >>

\* line 165: get_current_vault(), the lock
get_vaults_info_current_lock(t) ==
    /\ pc[t] = "gi_current_lock"
    /\ current_lock = None
    /\ current_lock' = Some(t)
    /\ Goto(t, "gi_current_read")
    /\ UNCHANGED << mem, recent_lock, disk, clock, next_uuid, ops_started, op,
                    local, ret, history >>

\* line 165: get_current_vault()?.map(|v| v.id)
get_vaults_info_current(t) ==
    /\ pc[t] = "gi_current_read"
    /\ current_lock' = None
    /\ local' = [local EXCEPT
                   ![t].current_id =
                      IF current_vault = None THEN None ELSE Some(current_vault[1].id),
                   ![t].i = 1]
    /\ Goto(t, "gi_entry")
    /\ UNCHANGED << mem, recent_lock, disk, clock, next_uuid, ops_started, op,
                    ret, history >>

\* a variant of info_of_entry: the directory is not looked at and the entry
\* is reported from the recent list itself
info_of_entry_from_recent(recent_vault, current_vault_id, content) ==
    << [ id |-> recent_vault.id, name |-> recent_vault.name,
         path |-> recent_vault.path, note_count |-> 0, total_size |-> 0,
         last_opened |-> recent_vault.last_opened,
         is_current |-> (current_vault_id = Some(recent_vault.id)) ] >>

\* lines 170-187: what one recent entry adds to vault_infos
info_of_entry(recent_vault, current_vault_id, content) ==
    IF ~exists(recent_vault.path) THEN <<>>
    ELSE IF ~file_exists(content) THEN <<>>
    ELSE IF ~read_to_string(content).ok THEN <<>>
    ELSE IF ~from_str(read_to_string(content).text).ok THEN <<>>
    ELSE LET vault_info == VaultInfoFrom(from_str(read_to_string(content).text).value[1])
         IN  << [vault_info EXCEPT !.is_current = (current_vault_id = Some(vault_info.id))] >>

\* one turn of the loop of lines 169-188
get_vaults_info_entry(t) ==
    /\ pc[t] = "gi_entry"
    /\ local[t].i <= Len(local[t].recent)
    /\ LET recent_vault == local[t].recent[local[t].i]
       IN  local' = [local EXCEPT
                       ![t].infos = @ \o info_of_entry(recent_vault, local[t].current_id,
                                                        config_content(recent_vault.path)),
                       ![t].i = @ + 1]
    /\ UNCHANGED << mem, locks, disk, clock, next_uuid, ops_started, pc, op, ret,
                    history >>

\* line 190: Ok(vault_infos)
get_vaults_info_return(t) ==
    /\ pc[t] = "gi_entry"
    /\ local[t].i > Len(local[t].recent)
    /\ Return(t, Ok(local[t].infos))
    /\ UNCHANGED << mem, locks, disk, clock, next_uuid, ops_started, op, local,
                    history >>

(***************************************************************************)
(* is_vault                                                                *)
(***************************************************************************)
\* a variant of is_vault_value: the config must also parse
is_vault_value_parsed(directory_path) ==
    /\ exists(directory_path)
    /\ is_dir(directory_path)
    /\ config_content(directory_path)[1] = "json"

\* lines 205-212: the value is_vault returns
is_vault_value(directory_path) ==
    IF ~exists(directory_path) \/ ~is_dir(directory_path) THEN FALSE
    ELSE file_exists(config_content(directory_path))

is_vault(t) ==
    /\ pc[t] = "iv_check"
    /\ Return(t, Ok(is_vault_value(op[t].path)))
    /\ UNCHANGED << mem, locks, disk, clock, next_uuid, ops_started, op, local,
                    history >>

(***************************************************************************)
(* The specifications.                                                     *)
(***************************************************************************)
Step(t) ==
    \/ Call(t)
    \/ create_vault_validate(t)
    \/ create_vault_mkdir(t)
    \/ create_vault_write(t)
    \/ create_vault_stats(t)
    \/ open_vault_validate(t)
    \/ open_vault_load(t)
    \/ open_vault_mkdir(t)
    \/ open_vault_write(t)
    \/ open_vault_stats(t)
    \/ save_vault_config(t)
    \/ set_current_vault_lock(t)
    \/ set_current_vault(t)
    \/ add_to_recent_vaults(t)
    \/ save_recent_vaults(t)
    \/ get_current_vault_lock(t)
    \/ get_current_vault(t)
    \/ close_vault_lock(t)
    \/ close_vault(t)
    \/ get_recent_vaults_lock(t)
    \/ get_recent_vaults(t)
    \/ get_vaults_info_recent_lock(t)
    \/ get_vaults_info_recent(t)
    \/ get_vaults_info_current_lock(t)
    \/ get_vaults_info_current(t)
    \/ get_vaults_info_entry(t)
    \/ get_vaults_info_return(t)
    \/ is_vault(t)

Next == Tick \/ \E t \in Tasks : Step(t)

\* commands of any tasks, interleaved
Spec == Init /\ [][Next]_vars

\* the task that runs the commands of a run without overlapping commands
SeqTask == "t1"

NextSeq == Tick \/ Step(SeqTask)

\* commands one after the other
SpecSeq == Init /\ [][NextSeq]_vars

\* the positions at which a task waits for the mutex of current_vault
CurrentLockLabels == {"sc_lock", "gc_lock", "cl_lock", "gi_current_lock"}
\* the positions at which a task waits for the mutex of recent_vaults
RecentLockLabels == {"ar_lock", "gr_lock", "gi_recent_lock"}

\* the task waits for a mutex that is held
Blocked(t) ==
    \/ pc[t] \in CurrentLockLabels /\ current_lock # None
    \/ pc[t] \in RecentLockLabels /\ recent_lock # None

\* the task runs a command and its next step can be taken
CanRun(t) == ~Idle(t) /\ ~Blocked(t)

\* a step of the command of task t (each changes pc[t] or local[t])
TaskMoved(t) == pc'[t] # pc[t] \/ local'[t] # local[t]

\* the steps of the tasks; the clock stands still (no lock depends on it)
NextFair == \E t \in Tasks : Step(t)

(***************************************************************************)
(* Interleaved commands under fair scheduling: a running command whose     *)
(* next step stays possible eventually takes it.  This is weak fairness of *)
(* the steps of each task, with the enabling condition CanRun written out. *)
(* The runtime keeps polling every task, and a released mutex is           *)
(* eventually handed to a waiter, as only finitely many commands compete.  *)
(***************************************************************************)
SpecFair ==
    /\ Init
    /\ [][NextFair]_vars
    /\ \A t \in Tasks : []<>(~CanRun(t)) \/ []<><<TaskMoved(t)>>_vars

(***************************************************************************)
(* The scan on its own: calculate_vault_stats applied to a vault at any of *)
(* the scan roots, with the settings its config holds.                     *)
(***************************************************************************)
\* the settings a loaded config can hold: the defaults, or no patterns
ScanSettings ==
    {DefaultSettings, [DefaultSettings EXCEPT !.exclude_patterns = <<>>]}

\* a vault at one of the roots reaches the scan (lines 70 and 130)
ScanCall(t) ==
    /\ Idle(t)
    /\ \E root \in ScanRoots, settings \in ScanSettings :
         /\ op' = [op EXCEPT ![t] = [NoOp EXCEPT !.name = "calculate_vault_stats",
                                                 !.path = root]]
         /\ local' = [local EXCEPT ![t] =
              [NoLocal EXCEPT !.vault =
                 Some([VaultNew(next_uuid, UnnamedVault, root, clock)
                         EXCEPT !.config.settings = settings])]]
    /\ pc' = [pc EXCEPT ![t] = "scan"]
    /\ ret' = [ret EXCEPT ![t] = NoRet]
    /\ UNCHANGED << mem, locks, disk, clock, next_uuid, ops_started, history >>

\* VaultService::calculate_vault_stats on the tree below the root, the
\* .onix directory and its vault.json being there as after lines 61 and 66
ScanRun(t) ==
    /\ pc[t] = "scan"
    /\ LET v == calculate_vault_stats(local[t].vault[1],
                                      WalkDir(local[t].vault[1].path, TRUE, TRUE))
       IN  /\ local' = [local EXCEPT ![t].vault = Some(v)]
           /\ Return(t, Ok(v))
    /\ UNCHANGED << mem, locks, disk, clock, next_uuid, ops_started, op, history >>

NextScan == \E t \in Tasks : ScanCall(t) \/ ScanRun(t)

\* scans of the same tree at different roots, side by side
SpecScan == Init /\ [][NextScan]_vars

(***************************************************************************)
(* Properties.                                                             *)
(***************************************************************************)
Done(t, name) == pc[t] = "done" /\ op[t].name = name
Succeeded(t, name) == Done(t, name) /\ ret[t].status = "Ok"

(***************************************************************************)
(* C1: after a successful create_vault(P), every later successful          *)
(* open_vault(P), with no other writer of P's config in between, returns   *)
(* the identifier create_vault returned; open_vault draws no new           *)
(* identifier for a directory whose config exists and parses.              *)
(***************************************************************************)
IdentityStableAcrossReopen ==
    \A t \in Tasks :
      Succeeded(t, "open_vault") =>
        /\ hist[t].saw = "json" => hist[t].generated = None
        /\ Covered(t) => ret[t].value[1].id = stable_id[op[t].path][1]

\* an open_vault that began after create_vault returned has returned as well
ReopenedAfterCreate ==
    \E t \in Tasks :
      /\ Succeeded(t, "open_vault")
      /\ Covered(t)
      /\ ret[t].value[1].id >= FirstUuid

(***************************************************************************)
(* C2: without overlapping commands get_current_vault returns the outcome  *)
(* of the most recent successful state-changing command: the vault of the  *)
(* last successful create_vault/open_vault, or none after close_vault or   *)
(* at the start; close_vault succeeds and leaves the slot empty.           *)
(***************************************************************************)
CurrentIsLastSuccessfulOutcome ==
    /\ Done(SeqTask, "get_current_vault") =>
         /\ ret[SeqTask].status = "Ok"
         /\ ret[SeqTask].value[1] = last_outcome
    /\ Done(SeqTask, "close_vault") =>
         /\ ret[SeqTask].status = "Ok"
         /\ current_vault = None

(***************************************************************************)
(* C3: the recent list never has more than 10 entries, from the list       *)
(* loaded at initialization on, and get_recent_vaults returns at most 10.  *)
(***************************************************************************)
RecentNeverExceedsCapacity ==
    /\ Len(recent_vaults) <= MaxRecent
    /\ \A t \in Tasks :
         Succeeded(t, "get_recent_vaults") => Len(ret[t].value[1]) <= MaxRecent

(***************************************************************************)
(* C4: no identifier occurs more than once in the recent list.             *)
(***************************************************************************)
RecentIdsAreUnique ==
    \A i, j \in 1..Len(recent_vaults) :
      recent_vaults[i].id = recent_vaults[j].id => i = j

(***************************************************************************)
(* C5: add_to_recent_vaults turns the list L into: the projection of the   *)
(* vault at index 0, then the entries of L with another identifier in      *)
(* their order, cut to 10.  So an 11th identifier drops the last entry,    *)
(* and re-adding an identifier moves it to the front with the new fields   *)
(* and leaves the length as it was.                                        *)
(***************************************************************************)
\* the indices of L whose entry has another identifier than id
OtherIndices(L, id) == {i \in 1..Len(L) : L[i].id # id}
\* the position of index i among them
RankAmong(L, id, i) == Cardinality({j \in OtherIndices(L, id) : j <= i})

AddedExactly(L, v, R) ==
    LET others == OtherIndices(L, v.id)
    IN  /\ Len(R) = IF 1 + Cardinality(others) > MaxRecent THEN MaxRecent
                    ELSE 1 + Cardinality(others)
        /\ R[1] = [id |-> v.id, name |-> v.name, path |-> v.path,
                   last_opened |-> v.last_opened]
        /\ \A i \in others :
             RankAmong(L, v.id, i) + 1 <= MaxRecent => R[RankAmong(L, v.id, i) + 1] = L[i]
        \* an 11th identifier drops the last entry
        /\ (Len(L) = MaxRecent /\ others = 1..Len(L)) =>
             /\ Len(R) = MaxRecent
             /\ \A i \in 1..(MaxRecent - 1) : R[i + 1] = L[i]
        \* re-adding keeps the length
        /\ (Len(L) <= MaxRecent /\ Cardinality(others) = Len(L) - 1) =>
             Len(R) = Len(L)

AddToRecentStep(t) == pc[t] = "ar_lock" /\ pc'[t] = "ar_save"

AddToRecentIsExact ==
    [][\A t \in Tasks :
         AddToRecentStep(t) =>
           AddedExactly(recent_vaults, local[t].vault[1], recent_vaults')]_vars

\* a vault was re-added to a full list, and a new one pushed the last one out
AddedToFullList ==
    \E t \in Tasks :
      /\ pc[t] = "ar_save"
      /\ Len(recent_vaults) = MaxRecent
      /\ recent_vaults[1].id = local[t].vault[1].id
      /\ recent_vaults[1].id >= FirstUuid
      /\ recent_vaults[MaxRecent].id = MaxRecent - 1

(***************************************************************************)
(* C6: open_vault on an existing directory without config succeeds,        *)
(* creates .onix/vault.json, returns a vault with a freshly generated      *)
(* identifier whose name is the directory's base name, and every later     *)
(* is_vault on it is true.                                                 *)
(***************************************************************************)
\* the identifiers in use: in a config, the recent list or the current slot
IdsInUse ==
    {from_str(vault_json[p]).value[1].id : p \in {q \in Dirs : from_str(vault_json[q]).ok}}
    \cup {recent_vaults[i].id : i \in 1..Len(recent_vaults)}
    \cup {current_vault[i].id : i \in 1..Len(current_vault)}

\* the claim as worded, for the calls none of whose writes fails
OpenPlainDirectoryAsSpecified ==
    \A t \in Tasks :
      (Done(t, "open_vault") /\ hist[t].saw = "absent" /\ ret[t].err # "Io") =>
        /\ ret[t].status = "Ok"
        /\ file_exists(vault_json[op[t].path])
        /\ hist[t].generated = Some(ret[t].value[1].id)
        /\ file_name(op[t].path) = Some(ret[t].value[1].name)

(***************************************************************************)
(* C6, amended: such an open_vault fails only with an I/O error of one of  *)
(* its writes; when it succeeds the config file exists, the identifier is  *)
(* the one it drew from Uuid::new_v4 (in use nowhere when drawn), and the  *)
(* name is the directory's base name, or "Unnamed Vault" for a path        *)
(* without one ("."); a config file, once there, stays, so is_vault stays  *)
(* true.                                                                   *)
(***************************************************************************)
OpenPlainDirectory ==
    /\ [](\A t \in Tasks :
            (Done(t, "open_vault") /\ hist[t].saw = "absent") =>
              /\ ret[t].status = "Ok" \/ ret[t].err = "Io"
              /\ ret[t].status = "Ok" =>
                   /\ file_exists(vault_json[op[t].path])
                   /\ is_vault_value(op[t].path)
                   /\ hist[t].generated = Some(ret[t].value[1].id)
                   /\ op[t].path = DirA => ret[t].value[1].name = <<"a">>
                   /\ op[t].path = DirDot => ret[t].value[1].name = UnnamedVault)
    /\ [][/\ \A t \in Tasks :
               (pc[t] = "ov_load" /\ pc'[t] = "ov_mkdir") =>
                 local'[t].vault[1].id \notin IdsInUse
          /\ \A p \in Dirs :
               file_exists(vault_json[p]) => file_exists(vault_json'[p])]_vars

\* open_vault has vaulted the directory ".", after another command
OpenedPlainDirectory ==
    \E t \in Tasks :
      /\ Succeeded(t, "open_vault")
      /\ hist[t].saw = "absent"
      /\ op[t].path = DirDot
      /\ ret[t].value[1].name = UnnamedVault
      /\ ops_started = MaxOps

(***************************************************************************)
(* C7: is_vault(D) never fails and is true iff D is an existing directory  *)
(* with a file at D/.onix/vault.json, whatever the file holds; it is false *)
(* for a missing path and for a file; after a successful create_vault at   *)
(* D it is true.                                                           *)
(***************************************************************************)
IsVaultIffConfigFile ==
    /\ [][\A t \in Tasks :
            (pc[t] = "iv_check" /\ pc'[t] = "done") =>
              /\ ret'[t].status = "Ok"
              /\ ret'[t].value[1] =
                   IF op[t].path \in Dirs THEN vault_json[op[t].path] # Absent
                   ELSE FALSE]_vars
    /\ [](\A t \in Tasks :
            Succeeded(t, "create_vault") =>
              /\ op[t].path \in Dirs
              /\ vault_json[op[t].path] # Absent
              /\ is_vault_value(op[t].path))

\* is_vault said true of a directory whose config a torn write left corrupt
IsVaultOnCorruptConfig ==
    \E t \in Tasks :
      /\ Succeeded(t, "is_vault")
      /\ ret[t].value[1] = TRUE
      /\ vault_json[op[t].path] = Corrupt
      /\ recent_vaults_json = Absent

(***************************************************************************)
(* C8: get_vaults_info returns, in the order of the recent list, one       *)
(* VaultInfo for each entry whose directory exists and whose config exists *)
(* and parses, leaves out every other entry, never fails, and changes      *)
(* neither the current vault nor the recent list.                          *)
(***************************************************************************)
\* the indices of the recent entries that are reported
Listed(L) ==
    {i \in 1..Len(L) : L[i].path \in Dirs /\ vault_json[L[i].path][1] = "json"}

VaultsInfoIsBestEffort ==
    Done(SeqTask, "get_vaults_info") =>
      LET L == recent_vaults
          R == ret[SeqTask].value[1]
      IN  /\ ret[SeqTask].status = "Ok"
          /\ hist[SeqTask].effects = {}
          /\ Len(R) = Cardinality(Listed(L))
          /\ \A i \in Listed(L) :
               LET r == R[Cardinality({j \in Listed(L) : j <= i})]
                   v == vault_json[L[i].path][2]
               IN  /\ r.id = v.id /\ r.name = v.name /\ r.path = v.path
                   /\ r.note_count = v.note_count /\ r.total_size = v.total_size
                   /\ r.last_opened = v.last_opened
                   /\ r.is_current = (current_vault # None /\ current_vault[1].id = v.id)

\* entries were listed, one of them the current vault, and entries were
\* left out: a missing directory, a file, and an unreadable config
ListedAndOmitted ==
    /\ Done(SeqTask, "get_vaults_info")
    /\ Len(ret[SeqTask].value[1]) >= 1
    /\ \E i \in 1..Len(recent_vaults) : recent_vaults[i].path = Gone
    /\ \E i \in 1..Len(recent_vaults) : recent_vaults[i].path = FileF
    /\ \E i \in 1..Len(recent_vaults) : config_content(recent_vaults[i].path) = Unreadable
    /\ \E i \in 1..Len(ret[SeqTask].value[1]) : ret[SeqTask].value[1][i].is_current

(***************************************************************************)
(* C9: create_vault and open_vault check the path first: a missing path    *)
(* gives NotFound (AppError::FileNotFound), a path that is no directory    *)
(* gives InvalidPath, and in both cases the command has written nothing,   *)
(* drawn no identifier and left the current vault and the recent list.     *)
(***************************************************************************)
PathIsValidatedFirst ==
    \A t \in Tasks :
      (Done(t, "create_vault") \/ Done(t, "open_vault")) =>
        /\ op[t].path = Gone =>
             ret[t] = Err("FileNotFound") /\ hist[t].effects = {}
                                          /\ hist[t].generated = None
        /\ op[t].path = FileF =>
             ret[t] = Err("InvalidPath") /\ hist[t].effects = {}
                                         /\ hist[t].generated = None
        /\ ret[t].err \in {"FileNotFound", "InvalidPath"} =>
             op[t].path \notin Dirs

\* create_vault has been refused on a file while a vault was open
RefusedWhileOpen ==
    \E t \in Tasks :
      /\ Done(t, "create_vault")
      /\ ret[t].err = "InvalidPath"
      /\ current_vault # None

(***************************************************************************)
(* C10: open_vault on a directory whose config exists but does not parse   *)
(* fails with the invalid-config error (AppError::InvalidMarkdown,         *)
(* "Invalid vault config") before any write: config, current vault and     *)
(* recent list stay as they are, so every later open_vault fails the same  *)
(* way while the file is not replaced.                                     *)
(***************************************************************************)
CorruptConfigIsRefused ==
    /\ [][\A t \in Tasks :
            (pc[t] = "ov_load" /\ pc'[t] # "ov_load"
               /\ config_content(op[t].path) = Corrupt) =>
              /\ pc'[t] = "done"
              /\ ret'[t] = Err("InvalidMarkdown")
              /\ UNCHANGED << mem, disk, next_uuid >>]_vars
    /\ [](\A t \in Tasks :
            (Done(t, "open_vault") /\ hist[t].saw = "corrupt") =>
              /\ ret[t] = Err("InvalidMarkdown")
              /\ hist[t].effects = {}
              /\ hist[t].generated = None)

\* open_vault has been refused on a config that a torn write of an earlier
\* command left corrupt
RefusedCorruptConfig ==
    \E t \in Tasks :
      /\ Done(t, "open_vault")
      /\ hist[t].saw = "corrupt"
      /\ vault_json[op[t].path] = Corrupt
      /\ recent_vaults_json = Absent

(***************************************************************************)
(* C11: no command holds the current-vault lock or the recent-vaults lock  *)
(* while it performs filesystem I/O: a task about to read or write a vault *)
(* config, the .onix directory or recent_vaults.json holds neither lock.   *)
(***************************************************************************)
\* the positions whose next step is a filesystem call
IoLabels ==
    {"cv_mkdir", "cv_write", "cv_stats", "ov_load", "ov_mkdir", "ov_write",
     "ov_stats", "ov_save", "ar_save", "gi_entry", "iv_check"}

NoLockHeldDuringIo ==
    \A t \in Tasks :
      pc[t] \in IoLabels => current_lock # Some(t) /\ recent_lock # Some(t)

(***************************************************************************)
(* C12: in every reachable state of any interleaving no task holds the     *)
(* current-vault lock and the recent-vaults lock at the same time; the     *)
(* system never deadlocks (while a command is running, some running        *)
(* command can take a step) and, under fair scheduling, every started      *)
(* command eventually returns.                                             *)
(***************************************************************************)
NeverBothLocks ==
    /\ [](\A t \in Tasks : ~(current_lock = Some(t) /\ recent_lock = Some(t)))
    /\ []((\E t \in Tasks : ~Idle(t)) => \E t \in Tasks : CanRun(t))
    /\ \A t \in Tasks : (~Idle(t)) ~> (pc[t] = "done")

\* both locks are held at once, by different tasks: one saves the recent
\* list while the other sets the current vault
BothLocksHeldByTwoTasks ==
    \E t, u \in Tasks :
      /\ t # u
      /\ recent_lock = Some(t) /\ pc[t] = "ar_save"
      /\ current_lock = Some(u) /\ pc[u] = "sc_set"

(***************************************************************************)
(* C13: when two open_vault calls on different paths run concurrently and  *)
(* both succeed, with no close_vault or other create/open in between, the  *)
(* current slot after both have completed holds the vault of the call that *)
(* did its set_current update last, whichever started first: it is one of  *)
(* the two returned vaults, whole.                                         *)
(***************************************************************************)
\* both tasks have completed a successful open_vault, on different paths
BothOpened ==
    /\ \A t \in Tasks : Succeeded(t, "open_vault")
    /\ \A t, u \in Tasks : t # u => op[t].path # op[u].path

LastWriterWins ==
    BothOpened =>
      /\ \E t \in Tasks : hist[t].wrote_last
      /\ \A t \in Tasks : hist[t].wrote_last => current_vault = ret[t].value
      /\ \E t \in Tasks : current_vault = Some(ret[t].value[1])

\* both calls overlapped: the one that set the current vault last was the
\* first to add itself to the recent list
OverlappingOpensCompleted ==
    /\ BothOpened
    /\ \E t \in Tasks :
         /\ hist[t].wrote_last
         /\ current_vault = ret[t].value
         /\ recent_vaults[1].id # ret[t].value[1].id

(***************************************************************************)
(* C14: after a successful open_vault(P) without overlapping command, in   *)
(* both branches the config at <P>/.onix/vault.json equals the vault that  *)
(* was returned and stored as current, field for field; its note_count and *)
(* total_size are those of the fresh scan (not the stored ones) and its    *)
(* last_opened is the refreshed timestamp.                                 *)
(***************************************************************************)
\* what a scan of each directory finds: /n/a holds a.md (10 bytes); "."
\* holds E.MD (2), .h/d.md (7) and g.md, whose size cannot be read
FreshStats(p) ==
    IF p = DirA THEN [note_count |-> 1, total_size |-> 10]
    ELSE [note_count |-> 3, total_size |-> 9]

CreatePersistsReturnedVault ==
    /\ Succeeded(SeqTask, "create_vault") =>
         /\ current_vault = ret[SeqTask].value
         /\ vault_json[op[SeqTask].path] = to_string_pretty(ret[SeqTask].value[1])
    /\ (Succeeded(SeqTask, "get_vaults_info") /\ current_vault # None) =>
         \A i \in 1..Len(ret[SeqTask].value[1]) :
           LET info == ret[SeqTask].value[1][i]
           IN  info.is_current =>
                 /\ info.note_count = current_vault[1].note_count
                 /\ info.total_size = current_vault[1].total_size

(***************************************************************************)
(* C16: in the scan an excluded entry excludes its whole subtree: no file  *)
(* anywhere beneath a directory the exclusion filter rejects is counted in *)
(* note_count or total_size, whatever the file's own name and extension.   *)
(***************************************************************************)
\* the path e lies beneath the directory d
is_beneath(d, e) ==
    /\ Len(d) < Len(e)
    /\ SubSeq(e, 1, Len(d)) = d
    /\ e[Len(d) + 1] = "/"

\* the entries that lie beneath no rejected directory
OutsideRejected(entries, exclude_patterns) ==
    { e \in entries :
        ~\E d \in entries : /\ ~d.is_file
                            /\ should_exclude_path(d.path, exclude_patterns)
                            /\ is_beneath(d.path, e.path) }

ExcludedSubtreesAreSkipped ==
    \A t \in Tasks :
      (Succeeded(t, "open_vault") \/ Succeeded(t, "create_vault")) =>
        LET v == ret[t].value[1]
            kept == counted_entries(
                      OutsideRejected(WalkDir(v.path, TRUE, TRUE),
                                      v.config.settings.exclude_patterns),
                      v.config.settings)
        IN  /\ v.note_count = Cardinality(kept)
            /\ v.total_size = sum_len(kept)

(***************************************************************************)
(* C17: the scanner returns note_count = the number of regular files under *)
(* the root that the exclusion filter does not reject and whose lower-     *)
(* cased extension is in settings.file_extensions, and total_size = the    *)
(* sum of their byte lengths, a file whose metadata cannot be read         *)
(* counting 0; for {a.md (10), b.txt (5), .git/c.md (3)} with default      *)
(* settings the result is 1 and 10.                                        *)
(***************************************************************************)
\* the files the claim counts
Qualifying(entries, settings) ==
    { e \in entries :
        /\ e.is_file
        /\ ~should_exclude_path(e.path, settings.exclude_patterns)
        /\ \E x \in {settings.file_extensions[i] :
                       i \in 1..Len(settings.file_extensions)} :
             /\ extension(e.path) # None
             /\ to_lowercase(extension(e.path)[1]) = x }

\* the byte length of a file, 0 when its metadata cannot be read
ReadableLen(e) == IF e.meta_ok THEN e.len ELSE 0

RECURSIVE TotalLen(_)
\* the sum of the readable lengths of a set of files
TotalLen(files) ==
    IF files = {} THEN 0
    ELSE LET longest == CHOOSE e \in files :
                          \A f \in files : ReadableLen(f) <= ReadableLen(e)
         IN  ReadableLen(longest) + TotalLen(files \ {longest})

ScanCountsQualifyingFiles ==
    \A t \in Tasks :
      (Succeeded(t, "open_vault") \/ Succeeded(t, "create_vault")) =>
        LET v == ret[t].value[1]
            files == Qualifying(WalkDir(v.path, TRUE, TRUE), v.config.settings)
        IN  /\ v.note_count = Cardinality(files)
            /\ v.total_size = TotalLen(files)
            /\ v.note_count = FreshStats(v.path).note_count
            /\ v.total_size = FreshStats(v.path).total_size

\* "." was scanned (an upper-case extension, a file without extension, a
\* size that cannot be read) after the example tree /n/a
ScannedBothTrees ==
    \E t \in Tasks :
      /\ Succeeded(t, "open_vault")
      /\ op[t].path = DirDot
      /\ ret[t].value[1].total_size = 9
      /\ Len(recent_vaults) >= 2
      /\ recent_vaults[2].path = DirA
      /\ recent_vaults[2].id >= FirstUuid

(***************************************************************************)
(* C18: a vault's identifier is immutable: once a directory has a config   *)
(* that parses, with identifier I, no command replaces the identifier in   *)
(* the persisted config, and every later successful create_vault or        *)
(* open_vault on the directory returns a vault with identifier I.          *)
(***************************************************************************)
\* the identifier in the config of directory p, when the config parses
PersistedId(content) ==
    IF from_str(content).ok THEN Some(from_str(content).value[1].id) ELSE None

IdentifierIsImmutable ==
    [][\A p \in Dirs :
         /\ (PersistedId(vault_json[p]) # None /\ PersistedId(vault_json'[p]) # None)
              => PersistedId(vault_json'[p]) = PersistedId(vault_json[p])
         /\ \A t \in Tasks :
              (pc[t] # "done" /\ pc'[t] = "done" /\ ret'[t].status = "Ok"
                 /\ op[t].name \in {"create_vault", "open_vault"} /\ op[t].path = p
                 /\ PersistedId(vault_json[p]) # None)
                => Some(ret'[t].value[1].id) = PersistedId(vault_json[p])]_vars

(***************************************************************************)
(* C19: the current vault and the head of the recent list agree: in every  *)
(* state in which no create_vault/open_vault is in progress and the        *)
(* current slot holds a vault v, the entry at index 0 of the recent list   *)
(* has the identifier of v, also after concurrent create_vault/open_vault  *)
(* calls have all completed.                                               *)
(***************************************************************************)
\* no create_vault or open_vault is between its call and its return
NoneInProgress ==
    \A t \in Tasks : op[t].name \in {"create_vault", "open_vault"} => pc[t] = "done"

CurrentIsHeadOfRecent ==
    (NoneInProgress /\ current_vault # None) =>
      /\ recent_vaults # <<>>
      /\ recent_vaults[1].id = current_vault[1].id

(***************************************************************************)
(* C20: a failed command leaves the shared state untouched: whenever       *)
(* create_vault or open_vault returns an error, at whatever step, it has   *)
(* written neither the current slot nor the in-memory recent list.         *)
(***************************************************************************)
FailedCommandTouchesNothing ==
    \A t \in Tasks :
      ((Done(t, "create_vault") \/ Done(t, "open_vault")) /\ ret[t].status = "Err") =>
        /\ "current" \notin hist[t].effects
        /\ "recent" \notin hist[t].effects

(***************************************************************************)
(* C21: the scan result depends only on what lies beneath the vault root:  *)
(* two roots with identical sub-trees and identical settings get the same  *)
(* note_count and total_size, whatever the roots' own paths are, also when *)
(* a root's path contains an exclusion pattern or a dot-prefixed           *)
(* component.                                                              *)
(***************************************************************************)
\* task t has scanned a vault
Scanned(t) == pc[t] = "done" /\ op[t].name = "calculate_vault_stats"

ScanDependsOnlyOnSubtree ==
    \A t, u \in Tasks :
      (/\ Scanned(t)
       /\ Scanned(u)
       /\ ret[t].value[1].config.settings = ret[u].value[1].config.settings) =>
        /\ ret[t].value[1].note_count = ret[u].value[1].note_count
        /\ ret[t].value[1].total_size = ret[u].value[1].total_size
====
